---- MODULE Spec2Model ----
(***************************************************************************)
(* Model of the MusicGen batch launcher (src/launcher.py) and of the       *)
(* resource steps of the readiness checker (src/check_aws_readiness.py)    *)
(* running against a cloud account.  The account (instances, spot          *)
(* requests, the security group, buckets, the identity role) is shared;    *)
(* every run of MusicGenLauncher.run and every invocation of the checker   *)
(* is a sequential process whose steps are its blocking provider calls     *)
(* and its prompts.                                                        *)
(***************************************************************************)
EXTENDS Integers, Sequences, FiniteSets, TLC

\* ---------------------------------------------------------------- bounds
\* launcher processes that may be alive at once, and the instances the
\* account holds when a run starts
NumRuns == 2
MaxPrior == 1

Runs == 1..NumRuns

\* ------------------------------------------------------- configuration
WORKER_TAG == "musicgen-batch-worker"
OtherTag == "some-other-name"
TagValues == {WORKER_TAG, OtherTag}

\* max_spot_price, in cents per hour
MAX_SPOT_PRICE == 40

\* ---------------------------------------------------- provider domain
InstanceStates ==
  {"pending", "running", "stopping", "stopped", "shutting-down", "terminated"}

\* the provider-driven life cycle of an instance
NextInstanceStates(s) ==
  CASE s = "pending" -> {"running", "shutting-down"}
    [] s = "running" -> {"stopping", "shutting-down"}
    [] s = "stopping" -> {"stopped"}
    [] s = "stopped" -> {"pending", "shutting-down"}
    [] s = "shutting-down" -> {"terminated"}
    [] OTHER -> {}

\* error codes a provider call may answer with (ClientError) and the
\* marker of an exception that is not a ClientError
NotClientError == "BotoCoreError"
ClientErrorCodes ==
  {"UnauthorizedOperation", "AccessDenied", "InsufficientInstanceCapacity",
   "SpotMaxPriceTooLow", "InvalidGroup.Duplicate"}
\* what a call may fail with whatever the account holds; the duplicate-group
\* code is answered only to a create of a group that exists
Failures == (ClientErrorCodes \ {"InvalidGroup.Duplicate"}) \cup {NotClientError}

\* ------------------------------------------------------------ operator input
\* what the operator types at a prompt, as a sequence of characters
RawAnswers ==
  { <<"y">>, <<"Y", "E", "S">>, <<" ", "y", "e", "s", " ">>, <<"n">>,
    <<"N", "o">>, <<"1">>, <<" ", "1">>, <<"2">>, <<"2", " ">>, <<"3">>,
    <<"Y", "1">>, <<>> }

RECURSIVE LStrip(_)
LStrip(s) == IF s # <<>> /\ Head(s) = " " THEN LStrip(Tail(s)) ELSE s

RECURSIVE RStrip(_)
RStrip(s) ==
  IF s # <<>> /\ s[Len(s)] = " " THEN RStrip(SubSeq(s, 1, Len(s) - 1)) ELSE s

\* str.strip()
Strip(s) == RStrip(LStrip(s))

LowerChar(c) ==
  CASE c = "Y" -> "y" [] c = "E" -> "e" [] c = "S" -> "s"
    [] c = "N" -> "n" [] c = "O" -> "o" [] OTHER -> c

\* str.lower()
Lower(s) == [i \in 1..Len(s) |-> LowerChar(s[i])]

VARIABLES
  instances,      \* the account's instances: sequence of [name, state, by]
  requests,       \* the account's spot requests: sequence of [name, bid, state]
  secGroup,       \* the security group: "absent", "created" (no rule), "ready"
  pc,             \* per run: the call or prompt the run is about to make
  mode,           \* per run: the launcher variant, "spot" or "ondemand"
  existing,       \* per run: existing_instances, as the ids of its entries
  registryErr,    \* per run: the registry query raised
  choice,         \* per run: the accepted answer at the duplicate prompt
  confirmed,      \* per run: the accepted answer at the cost confirmation
  zonePrices,     \* per run: what get_current_spot_prices returned
  shown,          \* per run: what display_spot_prices printed
  calls,          \* per run: mutating calls and status queries, in order
  spotRequestId,  \* per run: the id of the request the provider acknowledged
  report,         \* per run: the launch-time error and the category reported
  exitCode,       \* per run: the process exit status, -1 while running
  outcome,        \* per run: the exit path taken
  bucketName,     \* the readiness checker's config['S3_BUCKET_NAME']
  bucket,         \* the account's buckets by name: "absent", "created", "blocked"
  iam,            \* the account's role, policy, attachment, profile, membership
  cpc,            \* the readiness checker: the call it is about to make
  inv,            \* the readiness checker: invocations started so far
  answer,         \* the readiness checker: the provider's latest answer
  cur,            \* the running invocation: results so far and calls issued
  prev,           \* the invocation before it, as it ended
  input,          \* a single call of a function or a monitor: its arguments
  output          \* that call: what it returned or did

acct == <<instances, requests, secGroup>>
locals == <<existing, registryErr, choice, confirmed, zonePrices, shown,
            calls, spotRequestId, report>>
chk == <<bucketName, bucket, iam, cpc, inv, answer, cur, prev>>
io == <<input, output>>
vars == <<instances, requests, secGroup, pc, mode, existing, registryErr,
          choice, confirmed, zonePrices, shown, calls, spotRequestId, report,
          exitCode, outcome, bucketName, bucket, iam, cpc, inv, answer, cur,
          prev, input, output>>

\* no function is being called on its own
NoInput == [fn |-> "none"]
NoOutput == [fn |-> "none"]
NothingApplied == input = NoInput /\ output = NoOutput

\* --------------------------------------------------------- spot prices
NoPrices == [z \in {} |-> 0]

\* responses of describe_spot_price_history: samples [zone, price, ts]
PriceResponses ==
  { <<>>,
    << [zone |-> "us-east-1a", price |-> 30, ts |-> 2],
       [zone |-> "us-east-1b", price |-> 50, ts |-> 2] >>,
    << [zone |-> "us-east-1a", price |-> 50, ts |-> 2],
       [zone |-> "us-east-1a", price |-> 45, ts |-> 1],
       [zone |-> "us-east-1b", price |-> 45, ts |-> 1] >> }

\* the loop of get_current_spot_prices: the first sample of a zone is kept
RECURSIVE GroupByZone(_, _)
GroupByZone(samples, zone_prices) ==
  IF samples = <<>> THEN zone_prices
  ELSE LET price_info == Head(samples)
           zone == price_info.zone
       IN  IF zone \notin DOMAIN zone_prices
           THEN GroupByZone(Tail(samples),
                  [z \in DOMAIN zone_prices \cup {zone} |->
                     IF z = zone THEN price_info.price ELSE zone_prices[z]])
           ELSE GroupByZone(Tail(samples), zone_prices)

\* a call of get_current_spot_prices either returns a map or raises
Returns(zone_prices) == [raised |-> FALSE, value |-> zone_prices]
Raises == [raised |-> TRUE, value |-> NoPrices]

\* get_current_spot_prices without its except clauses
GetCurrentSpotPrices_Raises(result) ==
  IF result.ok THEN Returns(GroupByZone(result.samples, NoPrices)) ELSE Raises

\* get_current_spot_prices on a provider result: a response, or a failure
\* (ClientError or not), which both except clauses turn into {}
GetCurrentSpotPrices(result) ==
  IF result.ok THEN Returns(GroupByZone(result.samples, NoPrices))
  ELSE Returns(NoPrices)

\* display_spot_prices: the fallback line, or one mark per zone, and the ceiling
DisplaySpotPrices(zone_prices) ==
  IF DOMAIN zone_prices = {}
  THEN [fallback |-> TRUE, marks |-> NoPrices, ceiling |-> MAX_SPOT_PRICE]
  ELSE [fallback |-> FALSE,
        marks |-> [z \in DOMAIN zone_prices |->
                     IF zone_prices[z] <= MAX_SPOT_PRICE THEN 1 ELSE 0],
        ceiling |-> MAX_SPOT_PRICE]

NothingShown == [fallback |-> FALSE, marks |-> NoPrices, ceiling |-> 0]

\* ------------------------------------------------------------ registry
\* the provider's describe_instances under a tag:Name and a state filter
DescribeInstances(tagValues, stateNames) ==
  { i \in 1..Len(instances) :
      instances[i].name \in tagValues /\ instances[i].state \in stateNames }

\* a registry that looks for another tag than the launch request sets
RegistryTagValues_Other == {OtherTag}
RegistryTagValues == {WORKER_TAG}
\* a registry query with no state filter
RegistryStateNames_All == InstanceStates
RegistryStateNames == {"running", "pending", "stopping"}

\* check_existing_instances on a provider result: one entry per instance of
\* the response, or [] when the call raised
CheckExistingInstances(ok) ==
  IF ok THEN DescribeInstances(RegistryTagValues, RegistryStateNames) ELSE {}

\* a run that never asks about existing instances
AfterRegistry_NoGate(existing_instances) == "prices"

\* run: "if existing_instances:" chooses the duplicate prompt
AfterRegistry(existing_instances) ==
  IF existing_instances # {} THEN "choice" ELSE "prices"

\* -------------------------------------------------------- permissions
\* a permission check that passes only when both probes succeeded
CheckAwsPermissions_Strict(failure) == failure = ""

\* check_aws_permissions: failure is "" when both probes succeeded
CheckAwsPermissions(failure) ==
  IF failure = "" THEN TRUE
  ELSE IF failure \in ClientErrorCodes
       THEN failure \notin {"UnauthorizedOperation", "AccessDenied"}
       ELSE FALSE

\* ------------------------------------------------------------- prompts
\* a confirmation that takes an empty line for yes
GetUserConfirmation_DefaultYes(raw) ==
  LET response == Lower(Strip(raw))
  IN  IF response \in {<<"y", "e", "s">>, <<"y">>, <<>>} THEN "yes"
      ELSE IF response \in {<<"n", "o">>, <<"n">>} THEN "no"
      ELSE "again"

\* get_user_confirmation on one line of input: TRUE, FALSE, or "again"
GetUserConfirmation(raw) ==
  LET response == Lower(Strip(raw))
  IN  IF response \in {<<"y", "e", "s">>, <<"y">>} THEN "yes"
      ELSE IF response \in {<<"n", "o">>, <<"n">>} THEN "no"
      ELSE "again"

\* the duplicate-launch prompt of run on one line of input
DuplicateChoice(raw) ==
  LET c == Strip(raw)
  IN  IF c = <<"1">> THEN "1" ELSE IF c = <<"2">> THEN "2" ELSE "again"

\* ------------------------------------------------------- launch request
\* a launch specification tagged with another value than the registry's
LaunchSpecNameTag_Typo == "musicgen-worker"
LaunchSpecNameTag == WORKER_TAG
SpotPrice == MAX_SPOT_PRICE

\* the two special cases of the except clause exchanged
LaunchErrorCategory_Swapped(code) ==
  IF code \in ClientErrorCodes
  THEN IF code = "SpotMaxPriceTooLow" THEN "capacity-exhausted"
       ELSE IF code = "InsufficientInstanceCapacity" THEN "price-too-low"
       ELSE "other"
  ELSE "unexpected"

\* the branches of launch_spot_instance's except clauses
LaunchErrorCategory(code) ==
  IF code \in ClientErrorCodes
  THEN IF code = "SpotMaxPriceTooLow" THEN "price-too-low"
       ELSE IF code = "InsufficientInstanceCapacity" THEN "capacity-exhausted"
       ELSE "other"
  ELSE "unexpected"

NoReport == [code |-> "", category |-> "none"]

\* ------------------------------------------------------------- helpers
Goto(r, label) ==
  /\ pc' = [pc EXCEPT ![r] = label]
  /\ UNCHANGED <<exitCode, outcome>>

\* sys.exit(code) on the exit path `why`
Exit(r, code, why) ==
  /\ pc' = [pc EXCEPT ![r] = "done"]
  /\ exitCode' = [exitCode EXCEPT ![r] = code]
  /\ outcome' = [outcome EXCEPT ![r] = why]

\* a launcher that submits the request again after an error
LaunchFailed_Retry(r, failure) ==
  /\ report' = [report EXCEPT ![r] =
                  [code |-> failure, category |-> "other"]]
  /\ Goto(r, "submit")

\* launch_spot_instance returns False after a raised error; run exits 1
LaunchFailed(r, failure) ==
  /\ report' = [report EXCEPT ![r] =
                  [code |-> failure, category |-> LaunchErrorCategory(failure)]]
  /\ Exit(r, 1, "launch_failed")

Issue(r, call) == calls' = [calls EXCEPT ![r] = Append(@, call)]

\* --------------------------------------------------------------- run
\* run: check_aws_permissions, both probes succeed
PermissionsOk(r) ==
  /\ pc[r] = "start"
  /\ CheckAwsPermissions("")
  /\ Goto(r, "registry")
  /\ UNCHANGED <<acct, mode, io, chk, locals>>

\* run: check_aws_permissions, a probe raises
PermissionsFail(r) ==
  /\ pc[r] = "start"
  /\ \E failure \in Failures :
       IF CheckAwsPermissions(failure)
       THEN Goto(r, "registry")
       ELSE Exit(r, 1, "permissions")
  /\ UNCHANGED <<acct, mode, io, chk, locals>>

\* run: check_existing_instances and display_existing_instances
RegistryQuery(r) ==
  /\ pc[r] = "registry"
  /\ \E ok \in BOOLEAN :
       /\ existing' = [existing EXCEPT ![r] = CheckExistingInstances(ok)]
       /\ registryErr' = [registryErr EXCEPT ![r] = ~ok]
  /\ Goto(r, AfterRegistry(existing'[r]))
  /\ UNCHANGED <<acct, mode, io, chk, choice, confirmed, zonePrices, shown, calls,
                 spotRequestId, report>>

\* run: one answer at the prompt "Enter your choice (1 or 2)"
DuplicatePrompt(r) ==
  /\ pc[r] = "choice"
  /\ \E raw \in RawAnswers :
       LET c == DuplicateChoice(raw)
       IN  /\ choice' = [choice EXCEPT ![r] = IF c = "again" THEN @ ELSE c]
           /\ IF c = "1" THEN Goto(r, "prices")
              ELSE IF c = "2" THEN Exit(r, 0, "use_existing")
              ELSE Goto(r, "choice")
  /\ UNCHANGED <<acct, mode, io, chk, existing, registryErr, confirmed, zonePrices,
                 shown, calls, spotRequestId, report>>

\* run: get_current_spot_prices and display_spot_prices; an exception that
\* escaped them would reach run's "except Exception" and exit 1
SpotPrices(r) ==
  /\ pc[r] = "prices"
  /\ mode[r] = "spot"
  /\ \E result \in {[ok |-> TRUE, samples |-> s] : s \in PriceResponses}
                     \cup {[ok |-> FALSE, samples |-> <<>>]} :
       LET call == GetCurrentSpotPrices(result)
       IN  IF call.raised
           THEN /\ Exit(r, 1, "unexpected_error")
                /\ UNCHANGED <<zonePrices, shown>>
           ELSE /\ zonePrices' = [zonePrices EXCEPT ![r] = call.value]
                /\ shown' = [shown EXCEPT ![r] = DisplaySpotPrices(call.value)]
                /\ Goto(r, "confirm")
  /\ UNCHANGED <<acct, mode, io, chk, existing, registryErr, choice, confirmed, calls,
                 spotRequestId, report>>

\* the on-demand variant: the rate comes from a static table, no query
StaticPrices(r) ==
  /\ pc[r] = "prices"
  /\ mode[r] = "ondemand"
  /\ shown' = [shown EXCEPT ![r] =
                 [fallback |-> FALSE, marks |-> NoPrices, ceiling |-> MAX_SPOT_PRICE]]
  /\ Goto(r, "confirm")
  /\ UNCHANGED <<acct, mode, io, chk, existing, registryErr, choice, confirmed,
                 zonePrices, calls, spotRequestId, report>>

\* a run that launches whatever the operator answered
AfterConfirmation_IgnoresNo(a) ==
  IF a = "again" THEN "confirm" ELSE "sg_lookup"

\* run: "if not self.get_user_confirmation(): sys.exit(0)", else the launch
AfterConfirmation(a) ==
  IF a = "yes" THEN "sg_lookup" ELSE IF a = "no" THEN "exit" ELSE "confirm"

\* run: one answer at the prompt of get_user_confirmation
ConfirmPrompt(r) ==
  /\ pc[r] = "confirm"
  /\ \E raw \in RawAnswers :
       LET a == GetUserConfirmation(raw)
       IN  /\ confirmed' = [confirmed EXCEPT ![r] = IF a = "again" THEN @ ELSE a]
           /\ IF AfterConfirmation(a) = "exit"
              THEN Exit(r, 0, "declined")
              ELSE Goto(r, AfterConfirmation(a))
  /\ UNCHANGED <<acct, mode, io, chk, existing, registryErr, choice, zonePrices, shown,
                 calls, spotRequestId, report>>

\* ------------------------------------------- get_or_create_security_group
\* what describe_security_groups may answer for the configured group name
SgLookupAnswers ==
  (IF secGroup = "absent" THEN {"InvalidGroup.NotFound"} ELSE {"found"})
    \cup Failures

\* get_or_create_security_group after the lookup: return the id found, go on
\* to create when the error code is InvalidGroup.NotFound, else raise
AfterSgLookup(ans) ==
  IF ans = "found" THEN "submit"
  ELSE IF ans = "InvalidGroup.NotFound" THEN "sg_create"
  ELSE "raise"

\* describe_security_groups by name and what the code does with the answer
SecurityGroupLookup(r) ==
  /\ pc[r] = "sg_lookup"
  /\ \E ans \in SgLookupAnswers :
       IF AfterSgLookup(ans) = "raise"
       THEN LaunchFailed(r, ans)
       ELSE /\ Goto(r, AfterSgLookup(ans))
            /\ UNCHANGED report
  /\ UNCHANGED <<acct, mode, io, chk, existing, registryErr, choice, confirmed,
                 zonePrices, shown, calls, spotRequestId>>

\* create_security_group: creates the group, or fails (it exists, or other)
SecurityGroupCreate(r) ==
  /\ pc[r] = "sg_create"
  /\ Issue(r, "create_security_group")
  /\ \/ /\ secGroup = "absent"
        /\ secGroup' = "created"
        /\ Goto(r, "sg_ingress")
        /\ UNCHANGED report
     \/ /\ secGroup # "absent"
        /\ LaunchFailed(r, "InvalidGroup.Duplicate")
        /\ UNCHANGED secGroup
     \/ /\ \E failure \in Failures : LaunchFailed(r, failure)
        /\ UNCHANGED secGroup
  /\ UNCHANGED <<instances, requests, mode, io, chk, existing, registryErr, choice,
                 confirmed, zonePrices, shown, spotRequestId>>

\* an ingress call whose error is logged and passed over
SecurityGroupIngress_Swallows(r) ==
  /\ pc[r] = "sg_ingress"
  /\ Issue(r, "authorize_security_group_ingress")
  /\ \/ /\ secGroup' = "ready"
        /\ UNCHANGED report
     \/ /\ \E failure \in Failures :
             report' = [report EXCEPT ![r] =
               [code |-> failure, category |-> LaunchErrorCategory(failure)]]
        /\ UNCHANGED secGroup
  /\ Goto(r, "submit")
  /\ UNCHANGED <<instances, requests, mode, io, chk, existing, registryErr, choice,
                 confirmed, zonePrices, shown, spotRequestId>>

\* authorize_security_group_ingress for port 22
SecurityGroupIngress(r) ==
  /\ pc[r] = "sg_ingress"
  /\ Issue(r, "authorize_security_group_ingress")
  /\ \/ /\ secGroup' = "ready"
        /\ Goto(r, "submit")
        /\ UNCHANGED report
     \/ /\ \E failure \in Failures : LaunchFailed(r, failure)
        /\ UNCHANGED secGroup
  /\ UNCHANGED <<instances, requests, mode, io, chk, existing, registryErr, choice,
                 confirmed, zonePrices, shown, spotRequestId>>

\* ------------------------------------------------- launch_spot_instance
\* a launch request that bids the lowest observed quote when there is one
SpotRequest_BidsQuote(r) ==
  LET zp == zonePrices[r]
  IN  [name |-> LaunchSpecNameTag,
       bid |-> IF DOMAIN zp = {} THEN SpotPrice
               ELSE CHOOSE p \in {zp[z] : z \in DOMAIN zp} :
                      \A z \in DOMAIN zp : p <= zp[z],
       state |-> "open"]

\* the launch request as the provider records it once acknowledged
SpotRequest(r) ==
  [name |-> LaunchSpecNameTag, bid |-> SpotPrice, state |-> "open"]

\* request_spot_instances: acknowledged, or rejected
SubmitSpotRequest(r) ==
  /\ pc[r] = "submit"
  /\ mode[r] = "spot"
  /\ Issue(r, "request_spot_instances")
  /\ \/ /\ requests' = Append(requests, SpotRequest(r))
        /\ spotRequestId' = [spotRequestId EXCEPT ![r] = Len(requests')]
        /\ Goto(r, "status")
        /\ UNCHANGED report
     \/ /\ \E failure \in Failures : LaunchFailed(r, failure)
        /\ UNCHANGED <<requests, spotRequestId>>
  /\ UNCHANGED <<instances, secGroup, mode, io, chk, existing, registryErr, choice,
                 confirmed, zonePrices, shown>>

\* a launcher that polls the request until it leaves the open state
SpotRequestStatus_Polls(r) ==
  /\ pc[r] = "status"
  /\ mode[r] = "spot"
  /\ Issue(r, "describe_spot_instance_requests")
  /\ \/ /\ requests[spotRequestId[r]].state = "open"
        /\ Len(calls[r]) < 6
        /\ UNCHANGED <<pc, exitCode, outcome, report>>
     \/ /\ requests[spotRequestId[r]].state = "failed"
        /\ Exit(r, 1, "launch_failed")
        /\ UNCHANGED report
     \/ /\ requests[spotRequestId[r]].state = "active"
        /\ Exit(r, 0, "launched")
        /\ UNCHANGED report
     \/ \E failure \in Failures : LaunchFailed(r, failure)
  /\ UNCHANGED <<acct, mode, io, chk, existing, registryErr, choice, confirmed,
                 zonePrices, shown, spotRequestId>>

\* describe_spot_instance_requests, once, and the report of the status
SpotRequestStatus(r) ==
  /\ pc[r] = "status"
  /\ mode[r] = "spot"
  /\ Issue(r, "describe_spot_instance_requests")
  /\ \/ /\ requests[spotRequestId[r]].state = "failed"
        /\ Exit(r, 1, "launch_failed")
        /\ UNCHANGED report
     \/ /\ requests[spotRequestId[r]].state # "failed"
        /\ Exit(r, 0, "launched")
        /\ UNCHANGED report
     \/ \E failure \in Failures : LaunchFailed(r, failure)
  /\ UNCHANGED <<acct, mode, io, chk, existing, registryErr, choice, confirmed,
                 zonePrices, shown, spotRequestId>>

\* the on-demand variant: an unconditional launch request with the same tags;
\* the provider answers with the new instance, pending
OnDemandInstance(r) ==
  [name |-> WORKER_TAG, state |-> "pending", by |-> 1]

SubmitOnDemand(r) ==
  /\ pc[r] = "submit"
  /\ mode[r] = "ondemand"
  /\ Issue(r, "run_instances")
  /\ \/ /\ instances' = Append(instances, OnDemandInstance(r))
        /\ Goto(r, "status")
        /\ UNCHANGED report
     \/ /\ \E failure \in Failures : LaunchFailed(r, failure)
        /\ UNCHANGED instances
  /\ UNCHANGED <<requests, secGroup, mode, io, chk, existing, registryErr, choice,
                 confirmed, zonePrices, shown, spotRequestId>>

\* the on-demand variant: the status is queried once and reported
OnDemandStatus(r) ==
  /\ pc[r] = "status"
  /\ mode[r] = "ondemand"
  /\ Exit(r, 0, "launched")
  /\ UNCHANGED <<acct, mode, io, chk, locals>>

\* a run that notes the interrupt and carries on
Interrupt_Resumes(r) ==
  /\ pc[r] \notin {"idle", "done"}
  /\ outcome' = [outcome EXCEPT ![r] = "interrupted"]
  /\ exitCode' = [exitCode EXCEPT ![r] = 1]
  /\ UNCHANGED <<acct, pc, mode, io, chk, locals>>

\* run: KeyboardInterrupt while blocked in a call or at a prompt
Interrupt(r) ==
  /\ pc[r] \notin {"idle", "done"}
  /\ Exit(r, 1, "interrupted")
  /\ UNCHANGED <<acct, mode, io, chk, locals>>

\* ------------------------------------------------------------ provider
\* the provider fulfils an open request: the instance carries the request's tag
Fulfil(k) ==
  /\ requests[k].state = "open"
  /\ requests' = [requests EXCEPT ![k].state = "active"]
  /\ instances' = Append(instances,
       [name |-> requests[k].name, state |-> "pending", by |-> 1])
  /\ UNCHANGED <<secGroup, pc, mode, io, chk, locals, exitCode, outcome>>

\* the provider fails an open spot request (capacity, price)
FailRequest(k) ==
  /\ requests[k].state = "open"
  /\ requests' = [requests EXCEPT ![k].state = "failed"]
  /\ UNCHANGED <<instances, secGroup, pc, mode, io, chk, locals, exitCode, outcome>>

\* an instance moves along its life cycle
AdvanceInstance(i) ==
  /\ \E s \in NextInstanceStates(instances[i].state) :
       instances' = [instances EXCEPT ![i].state = s]
  /\ UNCHANGED <<requests, secGroup, pc, mode, io, chk, locals, exitCode, outcome>>

\* ------------------------------------------------ check_aws_readiness.py
\* readiness-checker invocations that may follow one another
MaxInvocations == 2

\* the bucket name of .env, and the names the operator may enter instead
S3_BUCKET_NAME == "musicgen-batch"
BucketNames == {S3_BUCKET_NAME, "musicgen-batch-2"}

\* what a call of the checker may fail with whatever the account holds
CheckerFailures == {"AccessDenied", NotClientError}

\* calls that create a resource
CreationCalls ==
  {"create_security_group", "create_bucket", "create_role", "create_policy",
   "create_instance_profile", "add_role_to_instance_profile"}

NoIam ==
  [role |-> FALSE, policy |-> FALSE, attached |-> FALSE, profile |-> FALSE,
   inProfile |-> FALSE]

\* the results of one invocation: "none" until the check has returned
NoInvocation == [name |-> "", s3 |-> "none", iam |-> "none", issued |-> {}]

\* the checker goes on to its next call, having issued `issued`
CGoto(label, issued) ==
  /\ cpc' = label
  /\ cur' = [cur EXCEPT !.issued = @ \cup issued]
  /\ UNCHANGED prev

\* create_s3_bucket returns; run_all_checks goes on to create_iam_role
S3Returns(result, issued) ==
  /\ cur' = [cur EXCEPT !.s3 = result, !.name = bucketName,
                        !.issued = @ \cup issued]
  /\ cpc' = "get_role"
  /\ UNCHANGED prev

\* create_iam_role returns, which ends the invocation: the checks that
\* follow it touch no resource
EndInvocation(result, issued) ==
  /\ cur' = [cur EXCEPT !.iam = result, !.issued = @ \cup issued]
  /\ prev' = cur'
  /\ cpc' = "idle"

\* a checker started against the account, once per invocation, while no
\* launcher is at work
StartChecker ==
  /\ cpc = "idle"
  /\ inv < MaxInvocations
  /\ \A r \in Runs : pc[r] \in {"idle", "submit"}
  /\ inv' = inv + 1
  /\ cpc' = "head_bucket"
  /\ cur' = [NoInvocation EXCEPT !.name = bucketName]
  /\ answer' = ""
  /\ UNCHANGED <<acct, pc, mode, io, locals, exitCode, outcome, bucketName, bucket,
                 iam, prev>>

\* ------------------------------------------------------ create_s3_bucket
\* what head_bucket may answer for the configured name
HeadBucketAnswers ==
  (IF bucket[bucketName] = "absent" THEN {"404"} ELSE {"found"})
    \cup CheckerFailures

\* a check that creates the bucket whatever head_bucket answered
AfterHeadBucket_AlwaysCreate(ans) == "create_bucket"

\* create_s3_bucket after head_bucket: True when found, create on 404,
\* else re-raise into the outer except clause
AfterHeadBucket(ans) ==
  IF ans = "found" THEN "return_true"
  ELSE IF ans = "404" THEN "create_bucket"
  ELSE "raise"

\* the outer except clause of create_s3_bucket: ask for another name when the
\* name is taken, else report failure; an exception that is not a ClientError
\* reaches run_all_checks, which records False as well
CreateS3BucketExcept(code) ==
  IF code = "BucketAlreadyExists" THEN "new_name" ELSE "return_false"

S3Failed(code, issued) ==
  IF CreateS3BucketExcept(code) = "new_name"
  THEN CGoto("new_name", issued)
  ELSE S3Returns("False", issued)

HeadBucket ==
  /\ cpc = "head_bucket"
  /\ \E ans \in HeadBucketAnswers :
       /\ answer' = ans
       /\ CASE AfterHeadBucket(ans) = "return_true" -> S3Returns("True", {})
            [] AfterHeadBucket(ans) = "create_bucket" ->
                 CGoto("create_bucket", {})
            [] OTHER -> S3Failed(ans, {})
  /\ UNCHANGED <<acct, pc, mode, io, locals, exitCode, outcome, bucketName, bucket,
                 iam, inv>>

\* create_bucket: creates the bucket, or fails (the name is taken, or other)
CreateBucket ==
  /\ cpc = "create_bucket"
  /\ \/ /\ bucket[bucketName] = "absent"
        /\ answer' = "ok"
        /\ bucket' = [bucket EXCEPT ![bucketName] = "created"]
        /\ CGoto("wait_bucket", {"create_bucket"})
     \/ \E code \in CheckerFailures \cup {"BucketAlreadyExists"} :
          /\ answer' = code
          /\ UNCHANGED bucket
          /\ S3Failed(code, {"create_bucket"})
  /\ UNCHANGED <<acct, pc, mode, io, locals, exitCode, outcome, bucketName, iam,
                 inv>>

\* the bucket_exists waiter
WaitBucket ==
  /\ cpc = "wait_bucket"
  /\ \/ /\ answer' = "ok"
        /\ CGoto("put_public_access_block", {})
     \/ \E code \in CheckerFailures :
          /\ answer' = code
          /\ S3Failed(code, {})
  /\ UNCHANGED <<acct, pc, mode, io, locals, exitCode, outcome, bucketName, bucket,
                 iam, inv>>

\* put_public_access_block with all four settings, then return True
PutPublicAccessBlock ==
  /\ cpc = "put_public_access_block"
  /\ \/ /\ answer' = "ok"
        /\ bucket' = [bucket EXCEPT ![bucketName] = "blocked"]
        /\ S3Returns("True", {"put_public_access_block"})
     \/ \E code \in CheckerFailures :
          /\ answer' = code
          /\ UNCHANGED bucket
          /\ S3Failed(code, {"put_public_access_block"})
  /\ UNCHANGED <<acct, pc, mode, io, locals, exitCode, outcome, bucketName, iam,
                 inv>>

\* the prompt for a new bucket name: update_env_value and the recursive
\* call when a name is entered, False when the line is empty
NewBucketName ==
  /\ cpc = "new_name"
  /\ \E new_name \in BucketNames \cup {""} :
       IF new_name # ""
       THEN /\ bucketName' = new_name
            /\ CGoto("head_bucket", {})
       ELSE /\ UNCHANGED bucketName
            /\ S3Returns("False", {})
  /\ UNCHANGED <<acct, pc, mode, io, locals, exitCode, outcome, bucket, iam, inv,
                 answer>>

\* ------------------------------------------------------- create_iam_role
\* what get_role, get_policy or get_instance_profile may answer
IamLookupAnswers(exists) ==
  (IF exists THEN {"found"} ELSE {"NoSuchEntity"}) \cup CheckerFailures

\* a lookup that goes on to create after any error
AfterIamLookup_AnyError(ans) ==
  IF ans = "found" THEN "exists" ELSE "create"

\* each lookup of create_iam_role: go on when found, create on NoSuchEntity,
\* else re-raise into the outer except clause
AfterIamLookup(ans) ==
  IF ans = "found" THEN "exists"
  ELSE IF ans = "NoSuchEntity" THEN "create"
  ELSE "raise"

\* attach_role_policy: an EntityAlreadyExists error is passed over
AfterAttach(ans) ==
  IF ans = "ok" THEN "go_on"
  ELSE IF ans # "EntityAlreadyExists" THEN "raise"
  ELSE "go_on"

\* one lookup of create_iam_role and what the code does with the answer
IamLookup(exists, found, create) ==
  /\ \E ans \in IamLookupAnswers(exists) :
       /\ answer' = ans
       /\ CASE AfterIamLookup(ans) = "exists" ->
                 IF found = "return_true"
                 THEN EndInvocation("True", {})
                 ELSE CGoto(found, {})
            [] AfterIamLookup(ans) = "create" -> CGoto(create, {})
            [] OTHER -> EndInvocation("False", {})
  /\ UNCHANGED <<acct, pc, mode, io, locals, exitCode, outcome, bucketName, bucket,
                 iam, inv>>

\* one creating call of create_iam_role: it succeeds, or fails into the
\* outer except clause
IamCreate(call, after, then) ==
  /\ \/ /\ answer' = "ok"
        /\ iam' = after
        /\ IF then = "return_true"
           THEN EndInvocation("True", {call})
           ELSE CGoto(then, {call})
     \/ \E code \in CheckerFailures :
          /\ answer' = code
          /\ UNCHANGED iam
          /\ EndInvocation("False", {call})
  /\ UNCHANGED <<acct, pc, mode, io, locals, exitCode, outcome, bucketName, bucket,
                 inv>>

GetRole ==
  /\ cpc = "get_role"
  /\ IamLookup(iam.role, "get_policy", "create_role")

CreateRole ==
  /\ cpc = "create_role"
  /\ IamCreate("create_role", [iam EXCEPT !.role = TRUE], "get_policy")

GetPolicy ==
  /\ cpc = "get_policy"
  /\ IamLookup(iam.policy, "attach_role_policy", "create_policy")

CreatePolicy ==
  /\ cpc = "create_policy"
  /\ IamCreate("create_policy", [iam EXCEPT !.policy = TRUE],
               "attach_role_policy")

\* attach_role_policy, called on every run; attaching an attached policy
\* changes nothing
AttachRolePolicy ==
  /\ cpc = "attach_role_policy"
  /\ \E ans \in {"ok"} \cup CheckerFailures
                \cup (IF iam.attached THEN {"EntityAlreadyExists"} ELSE {}) :
       /\ answer' = ans
       /\ iam' = IF ans = "ok" THEN [iam EXCEPT !.attached = TRUE] ELSE iam
       /\ IF AfterAttach(ans) = "go_on"
          THEN CGoto("get_instance_profile", {"attach_role_policy"})
          ELSE EndInvocation("False", {"attach_role_policy"})
  /\ UNCHANGED <<acct, pc, mode, io, locals, exitCode, outcome, bucketName, bucket,
                 inv>>

\* get_instance_profile: when found the function returns True
GetInstanceProfile ==
  /\ cpc = "get_instance_profile"
  /\ IamLookup(iam.profile, "return_true", "create_instance_profile")

CreateInstanceProfile ==
  /\ cpc = "create_instance_profile"
  /\ IamCreate("create_instance_profile", [iam EXCEPT !.profile = TRUE],
               "add_role_to_instance_profile")

\* add_role_to_instance_profile, the settle delay, and return True
AddRoleToInstanceProfile ==
  /\ cpc = "add_role_to_instance_profile"
  /\ IamCreate("add_role_to_instance_profile",
               [iam EXCEPT !.inProfile = TRUE], "return_true")

\* KeyboardInterrupt while the checker is in a call, a wait or a prompt:
\* the process exits where it stands
CheckerInterrupt ==
  /\ cpc # "idle"
  /\ cpc' = "idle"
  /\ answer' = "KeyboardInterrupt"
  /\ prev' = cur
  /\ UNCHANGED <<acct, pc, mode, io, locals, exitCode, outcome, bucketName, bucket,
                 iam, inv, cur>>


\* ---------------------------------------------------------------- Init
\* the instances a run may find in the account: left there by others under
\* any name (by = 0), or produced by an earlier run of the launcher in either
\* mode (by = 1), each in any state
PriorInstances ==
  { [name |-> n, state |-> s, by |-> 0] : n \in TagValues, s \in InstanceStates }
  \cup { [name |-> n, state |-> s, by |-> 1] :
           n \in {LaunchSpecNameTag, OnDemandInstance(1).name},
           s \in InstanceStates }

RECURSIVE SeqsUpTo(_, _)
SeqsUpTo(S, n) ==
  IF n = 0 THEN {<<>>}
  ELSE LET shorter == SeqsUpTo(S, n - 1)
       IN  shorter \cup { Append(q, x) : q \in shorter, x \in S }

\* the readiness checker has not been run against the account
CheckerNeverRun ==
  /\ bucketName = S3_BUCKET_NAME
  /\ bucket = [n \in BucketNames |-> "absent"]
  /\ iam = NoIam
  /\ cpc = "idle"
  /\ inv = 0
  /\ answer = ""
  /\ cur = NoInvocation
  /\ prev = NoInvocation

\* one launcher process is started; the account is as earlier activity left it
Init ==
  /\ instances \in SeqsUpTo(PriorInstances, MaxPrior)
  /\ requests = <<>>
  /\ secGroup \in {"absent", "created", "ready"}
  /\ pc = [r \in Runs |-> IF r = 1 THEN "start" ELSE "idle"]
  /\ \E m \in {"spot", "ondemand"} : mode = [r \in Runs |-> IF r = 1 THEN m ELSE "spot"]
  /\ existing = [r \in Runs |-> {}]
  /\ registryErr = [r \in Runs |-> FALSE]
  /\ choice = [r \in Runs |-> "none"]
  /\ confirmed = [r \in Runs |-> "none"]
  /\ zonePrices = [r \in Runs |-> NoPrices]
  /\ shown = [r \in Runs |-> NothingShown]
  /\ calls = [r \in Runs |-> <<>>]
  /\ spotRequestId = [r \in Runs |-> 0]
  /\ report = [r \in Runs |-> NoReport]
  /\ exitCode = [r \in Runs |-> -1]
  /\ outcome = [r \in Runs |-> "running"]
  /\ CheckerNeverRun
  /\ NothingApplied

Next ==
  \/ \E r \in Runs :
       \/ PermissionsOk(r)
       \/ PermissionsFail(r)
       \/ RegistryQuery(r)
       \/ DuplicatePrompt(r)
       \/ SpotPrices(r)
       \/ StaticPrices(r)
       \/ ConfirmPrompt(r)
       \/ SecurityGroupLookup(r)
       \/ SecurityGroupCreate(r)
       \/ SecurityGroupIngress(r)
       \/ SubmitSpotRequest(r)
       \/ SpotRequestStatus(r)
       \/ SubmitOnDemand(r)
       \/ OnDemandStatus(r)
       \/ Interrupt(r)
  \/ \E k \in 1..Len(requests) : Fulfil(k)
  \/ \E k \in 1..Len(requests) : FailRequest(k)
  \/ \E i \in 1..Len(instances) : AdvanceInstance(i)

Spec == Init /\ [][Next]_vars

\* ------------------------------------------------- the ensure operations
\* launch_spot_instance calls get_or_create_security_group
StartCall(r) ==
  /\ pc[r] = "idle"
  /\ cpc = "idle" /\ inv = 0
  /\ Goto(r, "sg_lookup")
  /\ UNCHANGED <<acct, mode, io, chk, locals>>

\* a fresh account, against which the ensure operations are called: by
\* launcher processes, one after another or at once, up to the return of
\* get_or_create_security_group, and by invocations of the readiness
\* checker, one after another
\* KeyboardInterrupt inside get_or_create_security_group
InterruptCall(r) ==
  /\ pc[r] \in {"sg_lookup", "sg_create", "sg_ingress"}
  /\ Interrupt(r)

\* nothing has run against a new account
FreshAccount ==
  /\ instances = <<>>
  /\ requests = <<>>
  /\ secGroup = "absent"
  /\ pc = [r \in Runs |-> "idle"]
  /\ mode = [r \in Runs |-> "spot"]
  /\ existing = [r \in Runs |-> {}]
  /\ registryErr = [r \in Runs |-> FALSE]
  /\ choice = [r \in Runs |-> "none"]
  /\ confirmed = [r \in Runs |-> "none"]
  /\ zonePrices = [r \in Runs |-> NoPrices]
  /\ shown = [r \in Runs |-> NothingShown]
  /\ calls = [r \in Runs |-> <<>>]
  /\ spotRequestId = [r \in Runs |-> 0]
  /\ report = [r \in Runs |-> NoReport]
  /\ exitCode = [r \in Runs |-> -1]
  /\ outcome = [r \in Runs |-> "running"]
  /\ CheckerNeverRun

ProvInit == FreshAccount /\ NothingApplied

ProvNext ==
  \/ \E r \in Runs :
       \/ StartCall(r)
       \/ SecurityGroupLookup(r)
       \/ SecurityGroupCreate(r)
       \/ SecurityGroupIngress(r)
       \/ InterruptCall(r)
  \/ StartChecker
  \/ HeadBucket
  \/ CreateBucket
  \/ WaitBucket
  \/ PutPublicAccessBlock
  \/ NewBucketName
  \/ GetRole
  \/ CreateRole
  \/ GetPolicy
  \/ CreatePolicy
  \/ AttachRolePolicy
  \/ GetInstanceProfile
  \/ CreateInstanceProfile
  \/ AddRoleToInstanceProfile
  \/ CheckerInterrupt

ProvSpec == ProvInit /\ [][ProvNext]_vars

\* =================================================== calls checked alone
\* get_current_spot_prices, the two log monitors, the construction of Config
\* and update_env_value are each called once on arguments drawn in CallInit;
\* the launcher and the readiness checker stay as they start.

\* ---------------------------------------------------------------- bounds
\* samples in one price response, instances in one describe_instances
\* response, lines in one .env file
MaxSamples == 3
MaxFound == 2
MaxLines == 2

\* ------------------------------------------- get_current_spot_prices
Samples ==
  [zone : {"us-east-1a", "us-east-1b"}, price : {30, 50}, ts : 1..2]

PriceInputs ==
  { [fn |-> "get_current_spot_prices", samples |-> s] :
      s \in SeqsUpTo(Samples, MaxSamples) }

\* --------------------------------------------------------- log monitors
PublicAddress == "203.0.113.7"

\* instances of the account as describe_instances reports them; the key
\* PublicIpAddress is absent ({}) until an address is assigned, if ever
DescribedInstances ==
  [name : TagValues, State : {"pending", "running", "stopped"},
   PublicIpAddress : {{}, {PublicAddress}}]

MonitorStateNames == {"running", "pending"}

\* instance.get('PublicIpAddress', 'No IP yet')
InstanceIp(instance) ==
  IF instance.PublicIpAddress = {} THEN "No IP yet"
  ELSE CHOOSE a \in instance.PublicIpAddress : TRUE

\* the instances that pass the filters of get_worker_instance, in order
MonitorFilter(described) ==
  SelectSeq(described,
            LAMBDA i : i.name = WORKER_TAG /\ i.State \in MonitorStateNames)

\* get_worker_instance: [] when describe_instances raised
GetWorkerInstance(response) ==
  IF ~response.ok THEN <<>>
  ELSE LET found == MonitorFilter(response.described)
       IN  [k \in 1..Len(found) |->
              [state |-> found[k].State, ip |-> InstanceIp(found[k])]]

\* ssh_to_instance / ssh_command: one ssh process to ubuntu@instance_ip
Ssh(instance_ip, command) == [host |-> instance_ip, command |-> command]

MonitorCommands == {"status", "logs", "tail", "ssh", "s3", "help"}

\* monitor_worker.main after the usage check: the ssh processes it starts
MonitorWorker(command, response) ==
  LET instances_ == GetWorkerInstance(response)
  IN  IF instances_ = <<>> THEN <<>>
      ELSE LET instance == instances_[1]
           IN  IF command \in {"logs", "tail", "ssh"}
               THEN IF instance.state # "running" THEN <<>>
                    ELSE <<Ssh(instance.ip, command)>>
               ELSE <<>>

MenuChoices == {"q", "b", "w"}

\* monitor_logs_unified: three ssh commands, then the menu: one choice that
\* follows a log over ssh (b, w) or none, and q
MonitorLogsUnified(instance_ip, menu) ==
  << Ssh(instance_ip, "bootstrap_status"), Ssh(instance_ip, "bootstrap_logs"),
     Ssh(instance_ip, "worker_logs") >>
  \o (IF menu = "q" THEN <<>> ELSE <<Ssh(instance_ip, menu)>>)

\* monitor_all_logs.main: the ssh processes it starts
MonitorAllLogs(menu, response) ==
  LET instances_ == GetWorkerInstance(response)
  IN  IF instances_ = <<>> THEN <<>>
      ELSE LET instance == instances_[1]
           IN  IF instance.state # "running" THEN <<>>
               ELSE MonitorLogsUnified(instance.ip, menu)

MonitorResponses ==
  { [ok |-> TRUE, described |-> d] :
      d \in SeqsUpTo(DescribedInstances, MaxFound) }
    \cup {[ok |-> FALSE, described |-> <<>>]}

MonitorInputs ==
  { [fn |-> "monitor_worker", command |-> c, response |-> d] :
      c \in MonitorCommands, d \in MonitorResponses }
    \cup
  { [fn |-> "monitor_all_logs", menu |-> m, response |-> d] :
      m \in MenuChoices, d \in MonitorResponses }

\* ------------------------------------------------------------- Config
\* the environment: each text variable is empty (or unset) or set
EnvTexts == {"", "set"}
PriceTexts == {"unset", "0.40", "0", "-0.10", "nan", "abc"}

Environments ==
  [AMI_ID : EnvTexts, AWS_ACCOUNT_ID : EnvTexts, IAM_ROLE_NAME : EnvTexts,
   S3_BUCKET_NAME : EnvTexts, KEY_PAIR_NAME : EnvTexts,
   MAX_SPOT_PRICE : PriceTexts]

\* os.getenv(name, default)
Getenv(value, default) == IF value = "unset" THEN default ELSE value

\* float(text): a number of cents, not-a-number, or ValueError
Float(text) ==
  CASE text = "0.40" -> [ok |-> TRUE, nan |-> FALSE, cents |-> MAX_SPOT_PRICE]
    [] text = "0" -> [ok |-> TRUE, nan |-> FALSE, cents |-> 0]
    [] text = "-0.10" -> [ok |-> TRUE, nan |-> FALSE, cents |-> 0 - 10]
    [] text = "nan" -> [ok |-> TRUE, nan |-> TRUE, cents |-> 0]
    [] OTHER -> [ok |-> FALSE, nan |-> FALSE, cents |-> 0]

\* x <= 0 on floats: every comparison with not-a-number is false
FloatLeqZero(x) == ~x.nan /\ x.cents <= 0

\* _load_aws_config: the fields that validate reads
LoadAwsConfig(env) ==
  [ami_id |-> env.AMI_ID,
   iam_role_arn |->
     IF env.AWS_ACCOUNT_ID # "" /\ env.IAM_ROLE_NAME # ""
     THEN <<"arn:aws:iam::", env.AWS_ACCOUNT_ID, ":role/", env.IAM_ROLE_NAME>>
     ELSE <<>>,
   s3_bucket_name |-> env.S3_BUCKET_NAME,
   key_pair_name |-> env.KEY_PAIR_NAME,
   max_spot_price |-> Float(Getenv(env.MAX_SPOT_PRICE, "0.40"))]

\* validate: the errors list, in order
Validate(aws) ==
  (IF aws.ami_id = "" THEN <<"AMI_ID">> ELSE <<>>)
  \o (IF aws.iam_role_arn = <<>>
      THEN <<"AWS_ACCOUNT_ID and IAM_ROLE_NAME">> ELSE <<>>)
  \o (IF aws.s3_bucket_name = "" THEN <<"S3_BUCKET_NAME">> ELSE <<>>)
  \o (IF aws.key_pair_name = "" THEN <<"KEY_PAIR_NAME">> ELSE <<>>)
  \o (IF FloatLeqZero(aws.max_spot_price) THEN <<"MAX_SPOT_PRICE">> ELSE <<>>)

\* Config(): what the constructor raises, if anything
NewConfig(env) ==
  LET aws == LoadAwsConfig(env)
  IN  IF ~aws.max_spot_price.ok
      THEN [raised |-> "ValueError", errors |-> <<"could not convert">>]
      ELSE IF Validate(aws) # <<>>
      THEN [raised |-> "ValueError", errors |-> Validate(aws)]
      ELSE [raised |-> "", errors |-> <<>>]

ConfigInputs == { [fn |-> "Config", env |-> e] : e \in Environments }

\* ------------------------------------------------------------ .env file
\* a line of text, without its newline
EnvLines ==
  { <<"K", "=", "v">>, <<"K", "=", "w">>, <<"J", "=", "w">>,
    <<"#", "K", "=", "w">>, <<" ", "K", "=", "w">>, <<"K">> }
EnvKeys == {<<"K">>, <<"J">>}
EnvValues == {<<"v">>, <<"x">>}

\* a file: its lines, and whether the last one ends with a newline
EnvFiles ==
  { [texts |-> t, eof |-> e] :
      t \in SeqsUpTo(EnvLines, MaxLines), e \in BOOLEAN }

\* f.readlines(): every line with its terminator, if it has one
ReadLines(file) ==
  [i \in 1..Len(file.texts) |->
     [text |-> file.texts[i], nl |-> i < Len(file.texts) \/ file.eof]]

\* f.writelines(lines): a line without terminator runs into the next
RECURSIVE JoinLines(_)
JoinLines(lines) ==
  IF Len(lines) <= 1 THEN lines
  ELSE IF ~lines[1].nl
  THEN JoinLines(<<[text |-> lines[1].text \o lines[2].text,
                    nl |-> lines[2].nl]>> \o Tail(Tail(lines)))
  ELSE <<lines[1]>> \o JoinLines(Tail(lines))

WriteLines(lines) ==
  LET joined == JoinLines(lines)
  IN  [texts |-> [i \in 1..Len(joined) |-> joined[i].text],
       eof |-> joined = <<>> \/ joined[Len(joined)].nl]

\* str.startswith
StartsWith(s, prefix) ==
  Len(s) >= Len(prefix) /\ SubSeq(s, 1, Len(prefix)) = prefix

\* the index of the first "=" of a line, 0 if it has none
RECURSIVE FindEq(_, _)
FindEq(s, i) ==
  IF i > Len(s) THEN 0 ELSE IF s[i] = "=" THEN i ELSE FindEq(s, i + 1)

NoConfig == [k \in {} |-> <<>>]

\* self.config[key] = value
SetConfig(config, key, value) ==
  [k \in DOMAIN config \cup {key} |-> IF k = key THEN value ELSE config[k]]

\* the loop of load_env_config over the lines from the i-th on
RECURSIVE LoadEnvLines(_, _, _)
LoadEnvLines(texts, i, config) ==
  IF i > Len(texts) THEN config
  ELSE LET line == Strip(texts[i])
           eq == FindEq(line, 1)
       IN  IF line # <<>> /\ Head(line) # "#" /\ eq > 0
           THEN LoadEnvLines(texts, i + 1,
                  SetConfig(config, SubSeq(line, 1, eq - 1),
                            SubSeq(line, eq + 1, Len(line))))
           ELSE LoadEnvLines(texts, i + 1, config)

\* load_env_config on a file that holds the required keys
LoadEnvConfig(file) == LoadEnvLines(file.texts, 1, NoConfig)

\* the first line that update_env_value rewrites, 0 if there is none
RECURSIVE FirstMatch(_, _, _)
FirstMatch(lines, i, key) ==
  IF i > Len(lines) THEN 0
  ELSE IF StartsWith(Strip(lines[i].text), key \o <<"=">>) THEN i
  ELSE FirstMatch(lines, i + 1, key)

\* update_env_value: the file written and self.config
UpdateEnvValue(file, key, value) ==
  LET lines == ReadLines(file)
      i == FirstMatch(lines, 1, key)
      entry == [text |-> key \o <<"=">> \o value, nl |-> TRUE]
      updated == IF i > 0 THEN [lines EXCEPT ![i] = entry]
                 ELSE Append(lines, entry)
  IN  [file |-> WriteLines(updated),
       config |-> SetConfig(LoadEnvConfig(file), key, value)]

EnvInputs ==
  { [fn |-> "update_env_value", file |-> f, key |-> k, value |-> v] :
      f \in EnvFiles, k \in EnvKeys, v \in EnvValues }

\* ------------------------------------------------------------ the calls
CallInputs == PriceInputs \cup MonitorInputs \cup ConfigInputs \cup EnvInputs

Returned(value) ==
  /\ output = NoOutput
  /\ output' = value
  /\ UNCHANGED <<input, acct, pc, mode, chk, locals, exitCode, outcome>>

CallGetCurrentSpotPrices ==
  /\ input.fn = "get_current_spot_prices"
  /\ Returned([fn |-> input.fn,
               result |-> GetCurrentSpotPrices(
                            [ok |-> TRUE, samples |-> input.samples])])

CallMonitorWorker ==
  /\ input.fn = "monitor_worker"
  /\ Returned([fn |-> input.fn,
               ssh |-> MonitorWorker(input.command, input.response)])

CallMonitorAllLogs ==
  /\ input.fn = "monitor_all_logs"
  /\ Returned([fn |-> input.fn,
               ssh |-> MonitorAllLogs(input.menu, input.response)])

CallConfig ==
  /\ input.fn = "Config"
  /\ Returned([fn |-> input.fn, result |-> NewConfig(input.env)])

CallUpdateEnvValue ==
  /\ input.fn = "update_env_value"
  /\ Returned([fn |-> input.fn,
               result |-> UpdateEnvValue(input.file, input.key, input.value)])

CallInit ==
  /\ FreshAccount
  /\ input \in CallInputs
  /\ output = NoOutput

CallNext ==
  \/ CallGetCurrentSpotPrices
  \/ CallMonitorWorker
  \/ CallMonitorAllLogs
  \/ CallConfig
  \/ CallUpdateEnvValue

CallSpec == CallInit /\ [][CallNext]_vars

\* ---------------------------------------------------------------- claims
LaunchCalls == {"request_spot_instances", "run_instances"}
LaunchCount(r) ==
  Cardinality({ i \in 1..Len(calls[r]) : calls[r][i] \in LaunchCalls })
Launched(r) == LaunchCount(r) > 0
ActiveStates == {"pending", "running", "stopping"}

\* C1: a run has issued its launch request only if the operator answered
\* the cost confirmation with yes, and, when the registry query returned at
\* least one instance, only if the operator also chose option 1; the
\* confirmation is needed whether or not instances were returned.
C1_LaunchOnlyAfterConfirmation ==
  \A r \in Runs :
    Launched(r) =>
      /\ confirmed[r] = "yes"
      /\ existing[r] # {} => choice[r] = "1"

C1_Witness ==
  \E r \in Runs :
    /\ mode[r] = "spot" /\ Launched(r)
    /\ existing[r] # {} /\ choice[r] = "1" /\ confirmed[r] = "yes"

\* C2: once the operator has declined the cost confirmation or chosen to
\* exit and use the existing instances, the run is over with exit code 0
\* and has issued no provider-mutating call.
C2_DeclineIsCleanAbort ==
  \A r \in Runs :
    (confirmed[r] = "no" \/ choice[r] = "2") =>
      /\ pc[r] = "done"
      /\ exitCode[r] = 0
      /\ calls[r] = <<>>

C2_Witness ==
  \E r \in Runs :
    /\ existing[r] # {} /\ choice[r] = "1"
    /\ confirmed[r] = "no" /\ exitCode[r] = 0

\* C3: a run whose registry query failed halts with an error: it never
\* stands at the cost confirmation or in the launch, and never has issued a
\* launch request.
C3_RegistryFailureHalts ==
  \A r \in Runs :
    registryErr[r] =>
      /\ pc[r] \notin {"confirm", "sg_lookup", "sg_create", "sg_ingress",
                       "submit", "status"}
      /\ ~Launched(r)

\* C4: when a run completes its registry query, every entry returned is an
\* instance that carries the worker tag and is in state pending, running
\* or stopping; none is in state terminated or shutting-down.
C4_RegistryReturnsOnlyActiveTagged ==
  [][\A r \in Runs :
       (pc[r] = "registry" /\ pc'[r] \in {"choice", "prices"}) =>
         \A i \in existing'[r] :
           /\ instances[i].name = WORKER_TAG
           /\ instances[i].state \in ActiveStates
           /\ instances[i].state \notin {"terminated", "shutting-down"}]_vars

C4_Witness ==
  \E r \in Runs :
    /\ pc[r] = "prices" /\ ~registryErr[r] /\ existing[r] = {}
    /\ \E i \in 1..Len(instances) :
         instances[i].name = WORKER_TAG /\ instances[i].state = "terminated"

\* C5: a run issues at most one launch request, and a run whose launch met
\* an error has exited: it issues no further request.
C5_NoRetryAfterRejection ==
  \A r \in Runs :
    /\ LaunchCount(r) <= 1
    /\ report[r] # NoReport => pc[r] = "done"

C5_Witness ==
  \E r \in Runs :
    /\ report[r].code = "SpotMaxPriceTooLow"
    /\ LaunchCount(r) = 1 /\ pc[r] = "done" /\ requests = <<>>

\* C6: a launch-time error is reported as capacity-exhausted exactly when
\* its code is InsufficientInstanceCapacity and as price-too-low exactly
\* when its code is SpotMaxPriceTooLow, and in every case the launch
\* returned False: the run has exited with status 1.
C6_RejectionClassification ==
  \A r \in Runs :
    report[r] # NoReport =>
      /\ report[r].category = "capacity-exhausted"
           <=> report[r].code = "InsufficientInstanceCapacity"
      /\ report[r].category = "price-too-low"
           <=> report[r].code = "SpotMaxPriceTooLow"
      /\ pc[r] = "done" /\ exitCode[r] = 1

C6_Witness ==
  \E r \in Runs :
    /\ report[r].code = "InsufficientInstanceCapacity"
    /\ report[r].category = "capacity-exhausted"
    /\ Launched(r) /\ exitCode[r] = 1

\* C7: a launch-time rejection for missing authorization is reported in a
\* category of its own, authorization-denied.
C7_AuthorizationDeniedCategory ==
  \A r \in Runs :
    report[r].code \in {"UnauthorizedOperation", "AccessDenied"} =>
      report[r].category = "authorization-denied"

\* C8: every launch request the account holds, and every instance a launch
\* of either mode produced, carries the Name tag with the configured worker
\* tag value.
C8_LaunchCarriesWorkerTag ==
  /\ \A k \in 1..Len(requests) : requests[k].name = WORKER_TAG
  /\ \A i \in 1..Len(instances) :
       instances[i].by = 1 => instances[i].name = WORKER_TAG

C8_Witness ==
  \E r \in Runs :
    /\ mode[r] = "spot" /\ Launched(r) /\ spotRequestId[r] > 0
    /\ requests[spotRequestId[r]].state = "active"
    /\ instances[Len(instances)].by = 1
    /\ instances[Len(instances)].state = "pending"

\* C9: when a run completes its registry query, every instance an earlier
\* run launched that is in state pending, running or stopping is among the
\* entries returned, and if there is one the run goes to the duplicate
\* prompt.
C9_CrossRunDiscovery ==
  [][\A r \in Runs :
       (pc[r] = "registry" /\ pc'[r] \in {"choice", "prices"}) =>
         LET launched == { i \in 1..Len(instances) :
                             /\ instances[i].by = 1
                             /\ instances[i].state \in ActiveStates }
         IN  /\ launched \subseteq existing'[r]
             /\ launched # {} => pc'[r] = "choice"]_vars

\* C10: every completion of the spot price step, and so one whose query
\* failed or returned no sample, takes the run to the cost confirmation
\* with the configured ceiling displayed, as the fallback line when no
\* price was obtained; the step never ends the run.
C10_PriceFailureNeverBlocks ==
  [][\A r \in Runs :
       (/\ pc[r] = "prices" /\ mode[r] = "spot"
        /\ pc'[r] # "prices" /\ outcome'[r] # "interrupted") =>
         /\ pc'[r] = "confirm"
         /\ shown'[r].ceiling = MAX_SPOT_PRICE
         /\ DOMAIN zonePrices'[r] = {} => shown'[r].fallback]_vars

C10_Witness ==
  \E r \in Runs :
    /\ mode[r] = "spot" /\ DOMAIN zonePrices[r] = {} /\ shown[r].fallback
    /\ confirmed[r] = "yes" /\ Launched(r) /\ requests # <<>>

\* C11: every spot request the account holds carries the configured ceiling
\* as its bid, whatever prices were observed; when every observed zone price
\* exceeds the ceiling the display marks every zone as exceeding it; and a
\* yes at the cost confirmation takes the run on to the launch.
AllExceed(zone_prices) ==
  /\ DOMAIN zone_prices # {}
  /\ \A z \in DOMAIN zone_prices : zone_prices[z] > MAX_SPOT_PRICE

C11_BidIsConfiguredCeiling ==
  [][/\ \A k \in 1..Len(requests') : requests'[k].bid = MAX_SPOT_PRICE
     /\ \A r \in Runs :
          /\ (pc[r] = "prices" /\ pc'[r] = "confirm"
                /\ AllExceed(zonePrices'[r])) =>
               /\ DOMAIN shown'[r].marks = DOMAIN zonePrices'[r]
               /\ \A z \in DOMAIN zonePrices'[r] : shown'[r].marks[z] = 0
          /\ (pc[r] = "confirm" /\ confirmed'[r] = "yes") =>
               pc'[r] = "sg_lookup"]_vars

C11_Witness ==
  \E r \in Runs :
    /\ AllExceed(zonePrices[r]) /\ confirmed[r] = "yes"
    /\ spotRequestId[r] > 0
    /\ requests[spotRequestId[r]].bid = MAX_SPOT_PRICE
    /\ \A z \in DOMAIN zonePrices[r] :
         requests[spotRequestId[r]].bid < zonePrices[r][z]

\* C12: a second call of an ensure operation, made after a call for the same
\* name has returned success, creates nothing and leaves the resource as it
\* is, and returns success again unless the provider fails it: for
\* get_or_create_security_group once another call has returned the group
\* id, and for create_s3_bucket and create_iam_role in the invocation after
\* one in which they returned True.
S3Steps ==
  {"head_bucket", "create_bucket", "wait_bucket", "put_public_access_block",
   "new_name"}
IamSteps ==
  {"get_role", "create_role", "get_policy", "create_policy",
   "attach_role_policy", "get_instance_profile", "create_instance_profile",
   "add_role_to_instance_profile"}

C12_SecondEnsureCreatesNothing ==
  [][/\ \A r \in Runs :
          (/\ pc[r] = "sg_lookup" /\ pc'[r] # "sg_lookup"
           /\ \E q \in Runs \ {r} : pc[q] = "submit") =>
            /\ pc'[r] # "sg_create"
            /\ secGroup' = secGroup
            /\ calls'[r] = calls[r]
            /\ (report'[r] = NoReport /\ outcome'[r] # "interrupted") =>
                 pc'[r] = "submit"
     /\ (/\ cpc \in S3Steps /\ cpc' # cpc
         /\ prev.s3 = "True" /\ prev.name = bucketName) =>
          /\ bucket' = bucket
          /\ bucketName' = bucketName
          /\ cur'.issued \cap {"create_bucket", "put_public_access_block"} = {}
          /\ (cur'.s3 # "none" /\ answer' \notin CheckerFailures) =>
               cur'.s3 = "True"
     /\ (cpc \in IamSteps /\ cpc' # cpc /\ prev.iam = "True") =>
          /\ iam' = iam
          /\ cur'.issued \cap CreationCalls \subseteq {"create_bucket"}
          /\ (cur'.iam # "none" /\ answer' \notin CheckerFailures) =>
               cur'.iam = "True"]_vars

C12_Witness ==
  /\ \E r, q \in Runs :
       /\ pc[r] = "submit" /\ calls[r] # <<>>
       /\ pc[q] = "submit" /\ calls[q] = <<>>
  /\ inv = 2 /\ cpc = "get_instance_profile"
  /\ prev.s3 = "True" /\ prev.iam = "True"
  /\ cur.s3 = "True" /\ cur.issued = {"attach_role_policy"}

\* C13: a check-then-create step goes on to its creation call only when the
\* lookup answered the not-found code of the resource (InvalidGroup.NotFound,
\* which the provider answers for an absent group, 404 for the bucket,
\* NoSuchEntity for role, policy and instance profile); a lookup that failed
\* in another way issues no call, changes nothing and ends the step as failed.
NotFoundCode(lookup) ==
  IF lookup = "head_bucket" THEN "404" ELSE "NoSuchEntity"

CreateAfter ==
  [head_bucket |-> "create_bucket", get_role |-> "create_role",
   get_policy |-> "create_policy",
   get_instance_profile |-> "create_instance_profile"]

C13_CreateOnlyOnNotFound ==
  [][/\ \A r \in Runs :
          (pc[r] = "sg_lookup" /\ pc'[r] # "sg_lookup"
            /\ outcome'[r] # "interrupted") =>
            \/ pc'[r] = "submit" /\ secGroup # "absent" /\ calls'[r] = calls[r]
            \/ pc'[r] = "sg_create" /\ secGroup = "absent"
            \/ /\ pc'[r] = "done" /\ exitCode'[r] = 1
               /\ report'[r].code \in Failures
               /\ calls'[r] = calls[r] /\ secGroup' = secGroup
     /\ \A lookup \in DOMAIN CreateAfter :
          /\ (cpc' = CreateAfter[lookup] /\ cpc # cpc') =>
               cpc = lookup /\ answer' = NotFoundCode(lookup)
          /\ (cpc = lookup /\ cpc' # cpc /\ answer' \in CheckerFailures) =>
               /\ cur'.issued = cur.issued
               /\ bucket' = bucket /\ iam' = iam
               /\ IF lookup = "head_bucket"
                  THEN cur'.s3 = "False"
                  ELSE cur'.iam = "False" /\ cpc' = "idle"
     /\ (cur'.issued \ cur.issued) \cap CreationCalls # {} =>
          cpc \in {"create_bucket", "create_role", "create_policy",
                   "create_instance_profile", "add_role_to_instance_profile"}
    ]_vars

C13_Witness ==
  /\ \E r \in Runs :
       /\ pc[r] = "submit"
       /\ calls[r] = <<"create_security_group", "authorize_security_group_ingress">>
  /\ cpc = "idle" /\ answer = "AccessDenied"
  /\ prev.s3 = "True" /\ prev.iam = "False"
  /\ prev.issued =
       {"create_bucket", "put_public_access_block", "create_role"}
  /\ ~iam.policy

\* C14: whenever create_iam_role has returned success, also on a run that
\* follows one stopped after any sub-step, the account holds the role, the
\* policy attached to the role, and an instance profile that contains the
\* role.
C14_IamRoleResumable ==
  prev.iam = "True" =>
    /\ iam.role /\ iam.policy /\ iam.attached
    /\ iam.profile /\ iam.inProfile

\* C15: whenever get_or_create_security_group has returned a group id to a
\* run and no other run is inside the function, as on the run after one that
\* was interrupted or failed between create_security_group and the ingress
\* call, the group has the port-22 ingress rule.
C15_ReturnedGroupHasIngress ==
  \A r \in Runs :
    (/\ pc[r] = "submit"
     /\ \A q \in Runs \ {r} : pc[q] \in {"idle", "done", "submit"}) =>
      secGroup = "ready"

\* C16: a run whose create_security_group failed because the group already
\* exists, as when two runs both saw the group missing and both called
\* create, has obtained the group id and stands at the launch request: it has
\* not failed.
C16_DuplicateCreateIsSuccess ==
  \A r \in Runs :
    report[r].code = "InvalidGroup.Duplicate" =>
      pc[r] = "submit" /\ exitCode[r] # 1

\* C17: a run that is over has exactly one outcome among launched, aborted
\* by the operator, rejected by the provider, and registry or provisioner
\* error; its exit status is 0 when launched and when the operator declined,
\* and non-zero after a provider rejection and after a registry or
\* provisioner error, so a run whose registry query failed never exits 0.
OutcomesOf(r) ==
  (IF outcome[r] = "launched" THEN {"launched"} ELSE {})
  \cup (IF outcome[r] \in {"declined", "use_existing", "interrupted"}
        THEN {"aborted-by-operator"} ELSE {})
  \cup (IF outcome[r] = "launch_failed" /\ Launched(r)
        THEN {"rejected-by-provider"} ELSE {})
  \cup (IF \/ outcome[r] \in {"permissions", "unexpected_error"}
           \/ outcome[r] = "launch_failed" /\ ~Launched(r)
        THEN {"registry-or-provisioner-error"} ELSE {})

C17_ExitStatusByOutcome ==
  \A r \in Runs :
    pc[r] = "done" =>
      /\ Cardinality(OutcomesOf(r)) = 1
      /\ outcome[r] \in {"launched", "declined", "use_existing"}
           => exitCode[r] = 0
      /\ "rejected-by-provider" \in OutcomesOf(r) => exitCode[r] > 0
      /\ "registry-or-provisioner-error" \in OutcomesOf(r) => exitCode[r] > 0
      /\ registryErr[r] => exitCode[r] > 0

\* C18: an operator interrupt ends the run at once, as aborted with a
\* non-zero exit status, wherever the run stood, and a run so ended issues
\* no call afterwards.
C18_InterruptAborts ==
  [][\A r \in Runs :
       /\ outcome'[r] = "interrupted" =>
            /\ pc'[r] = "done"
            /\ exitCode'[r] > 0
            /\ calls'[r] = calls[r]
       /\ outcome[r] = "interrupted" => outcome'[r] = "interrupted"]_vars

C18_Witness ==
  \E r \in Runs :
    /\ outcome[r] = "interrupted" /\ exitCode[r] = 1
    /\ existing[r] # {} /\ choice[r] = "1"
    /\ shown[r] # NothingShown /\ confirmed[r] = "none"
    /\ calls[r] = <<>>

\* C19: a run has issued its launch request only when the security group,
\* the storage bucket and the identity role with its instance profile are
\* all in place.
C19_LaunchAfterAllEnsured ==
  \A r \in Runs :
    Launched(r) =>
      /\ secGroup # "absent"
      /\ bucket[bucketName] # "absent"
      /\ iam.role /\ iam.profile /\ iam.inProfile

\* C20: a run in which a call of get_or_create_security_group failed is over
\* with a non-zero exit status and has issued no launch request; a run that
\* is over issues no call.
SgSteps == {"sg_lookup", "sg_create", "sg_ingress"}

C20_SecurityGroupErrorEndsRun ==
  [][\A r \in Runs :
       /\ (pc[r] \in SgSteps /\ report'[r] # NoReport) =>
            /\ pc'[r] = "done"
            /\ exitCode'[r] > 0
            /\ \A i \in 1..Len(calls'[r]) : calls'[r][i] \notin LaunchCalls
       /\ pc[r] = "done" => pc'[r] = "done" /\ calls'[r] = calls[r]]_vars

C20_Witness ==
  \E r \in Runs :
    /\ confirmed[r] = "yes" /\ pc[r] = "done" /\ exitCode[r] = 1
    /\ report[r].code = "AccessDenied"
    /\ calls[r] = <<"create_security_group">> /\ secGroup = "absent"

\* ------------------------------------------------------------------ C21
StatusCalls == {"describe_spot_instance_requests"}
StatusCount(r) ==
  Cardinality({ i \in 1..Len(calls[r]) : calls[r][i] \in StatusCalls })

\* C21: after the provider acknowledges the launch request the launcher
\* queries the request status exactly once and then reports: a run never
\* holds two status queries, its one status query directly follows the
\* acknowledged request and ends the run, and a run that reports a launch
\* has made it
C21_StatusQueriedOnce ==
  \A r \in Runs : mode[r] = "spot" =>
    /\ StatusCount(r) <= 1
    /\ StatusCount(r) = 1 =>
         /\ spotRequestId[r] > 0
         /\ pc[r] = "done" /\ outcome[r] \in {"launched", "launch_failed"}
         /\ Len(calls[r]) >= 2
         /\ calls[r][Len(calls[r])] \in StatusCalls
         /\ calls[r][Len(calls[r]) - 1] = "request_spot_instances"
    /\ outcome[r] = "launched" => StatusCount(r) = 1

C21_Witness ==
  \E r \in Runs :
    /\ mode[r] = "spot" /\ outcome[r] = "launched"
    /\ spotRequestId[r] > 0 /\ StatusCount(r) = 1
    /\ requests[spotRequestId[r]].state = "open"

\* ------------------------------------------------------------------ C22
ZonesOf(samples) == { samples[i].zone : i \in 1..Len(samples) }

\* C22: for every list of spot price samples, in any order,
\* get_current_spot_prices maps each zone that appears to the price of a
\* sample of that zone with the latest timestamp, and maps no other zone
C22_LatestSamplePerZone ==
  output.fn = "get_current_spot_prices" =>
    LET samples == input.samples
        zone_prices == output.result.value
    IN  /\ ~output.result.raised
        /\ DOMAIN zone_prices = ZonesOf(samples)
        /\ \A z \in DOMAIN zone_prices :
             \E i \in 1..Len(samples) :
               /\ samples[i].zone = z /\ samples[i].price = zone_prices[z]
               /\ \A j \in 1..Len(samples) :
                    samples[j].zone = z => samples[j].ts <= samples[i].ts

\* ------------------------------------------------------------------ C23
Registry == DescribeInstances(RegistryTagValues, RegistryStateNames)

\* the provider fulfils the request of run r, which the operator let
\* continue past n >= 1 registry entries and confirmed
DuplicateLaunchAccepted(r) ==
  /\ mode[r] = "spot"
  /\ existing[r] # {} /\ choice[r] = "1" /\ confirmed[r] = "yes"
  /\ spotRequestId[r] > 0
  /\ requests[spotRequestId[r]].state = "open"
  /\ requests'[spotRequestId[r]].state = "active"

AcceptedRequestStands(r) ==
  /\ spotRequestId[r] > 0
  /\ requests[spotRequestId[r]].state \in {"open", "active"}

\* C25: absent an operator interrupt, a run reports a failed launch and
\* exits non-zero only when the provider accepted no launch request in it;
\* an error of the status query after the request was acknowledged does not
\* make a standing request a reported failure
C25_FailureOnlyWithoutRequest ==
  \A r \in Runs :
    mode[r] = "spot" /\ outcome[r] = "launch_failed" /\ exitCode[r] # 0
      => ~AcceptedRequestStands(r)

\* ------------------------------------------------------------------ C26
\* run r has done nothing beyond the permission check
OnlyChecked(r) ==
  /\ existing[r] = {} /\ ~registryErr[r]
  /\ choice[r] = "none" /\ confirmed[r] = "none"
  /\ zonePrices[r] = NoPrices /\ shown[r] = NothingShown
  /\ calls[r] = <<>> /\ spotRequestId[r] = 0 /\ report[r] = NoReport

AuthErrorCodes == {"UnauthorizedOperation", "AccessDenied"}

\* C26: the permission check comes first: the registry query is reached
\* only from it, and a run whose check returned False exits non-zero having
\* queried no registry, prompted nobody and changed nothing in the account;
\* the check returns False exactly for UnauthorizedOperation, AccessDenied
\* and a non-ClientError exception, and True for the other ClientError codes
C26_PermissionCheckFirst ==
  [][/\ \A r \in Runs :
          /\ pc[r] = "start" => OnlyChecked(r)
          /\ pc[r] = "start" /\ pc'[r] # "start" =>
               /\ OnlyChecked(r)' /\ acct' = acct
               /\ \/ pc'[r] = "registry"
                  \/ /\ pc'[r] = "done" /\ exitCode'[r] > 0
                     /\ outcome'[r] \in {"permissions", "interrupted"}
          /\ pc'[r] = "registry" => pc[r] \in {"start", "registry"}
          /\ outcome'[r] = "permissions" =>
               pc'[r] = "done" /\ exitCode'[r] > 0 /\ OnlyChecked(r)'
     /\ CheckAwsPermissions("")
     /\ \A failure \in ClientErrorCodes \cup {NotClientError} :
          CheckAwsPermissions(failure) =
            (failure \in ClientErrorCodes \ AuthErrorCodes)]_vars

C26_Witness ==
  \E r \in Runs :
    /\ outcome[r] = "permissions" /\ pc[r] = "done" /\ exitCode[r] = 1
    /\ OnlyChecked(r) /\ requests = <<>>

\* ------------------------------------------------------------------ C27
Spaces(n) == [i \in 1..n |-> " "]

\* raw is one of the words with blanks before and after it
Padded(raw, words) ==
  \E w \in words :
    /\ Len(w) <= Len(raw)
    /\ \E a \in 0..(Len(raw) - Len(w)) :
         raw = Spaces(a) \o w \o Spaces(Len(raw) - Len(w) - a)

YesWords ==
  { <<y>> : y \in {"y", "Y"} }
    \cup { <<y, e, z>> : y \in {"y", "Y"}, e \in {"e", "E"}, z \in {"s", "S"} }
NoWords ==
  { <<n>> : n \in {"n", "N"} }
    \cup { <<n, o>> : n \in {"n", "N"}, o \in {"o", "O"} }

\* run r is where it was
SamePlace(r) ==
  /\ pc'[r] = pc[r] /\ exitCode'[r] = exitCode[r] /\ outcome'[r] = outcome[r]
  /\ choice'[r] = choice[r] /\ confirmed'[r] = confirmed[r]
  /\ calls'[r] = calls[r]

Interrupted(r) == pc'[r] = "done" /\ outcome'[r] = "interrupted"

C29_TrueMeansAccessBlocked ==
  cur.s3 = "True" /\ cur.name = bucketName => bucket[bucketName] = "blocked"

\* ------------------------------------------------------------------ C24
Monitors == {"monitor_worker", "monitor_all_logs"}

\* C24: a log monitor starts an ssh process only for a selected instance
\* whose state is running and that has a public address; for the selected
\* instance in any other condition, or with none selected, it starts none
C24_SshOnlyToRunningWithAddress ==
  (output.fn \in Monitors /\ output.ssh # <<>>) =>
    /\ input.response.ok
    /\ MonitorFilter(input.response.described) # <<>>
    /\ LET selected == MonitorFilter(input.response.described)[1]
       IN  /\ selected.State = "running"
           /\ selected.PublicIpAddress # {}
           /\ \A k \in 1..Len(output.ssh) :
                output.ssh[k].host \in selected.PublicIpAddress

\* ------------------------------------------------------------------ C28
\* the requirements that an environment violates
Violated(env) ==
  (IF env.AMI_ID = "" THEN {"AMI_ID"} ELSE {})
  \cup (IF env.AWS_ACCOUNT_ID = "" \/ env.IAM_ROLE_NAME = ""
        THEN {"AWS_ACCOUNT_ID and IAM_ROLE_NAME"} ELSE {})
  \cup (IF env.S3_BUCKET_NAME = "" THEN {"S3_BUCKET_NAME"} ELSE {})
  \cup (IF env.KEY_PAIR_NAME = "" THEN {"KEY_PAIR_NAME"} ELSE {})
  \cup (IF env.MAX_SPOT_PRICE \in {"unset", "0.40"} THEN {}
        ELSE {"MAX_SPOT_PRICE"})

\* C28: constructing Config succeeds exactly when AMI id, bucket name and
\* key pair name are non-empty, account id and role name are both non-empty
\* and max_spot_price is greater than 0; otherwise it raises a ValueError
\* that lists every violated requirement
C28_ConfigValidation ==
  output.fn = "Config" =>
    /\ output.result.raised = "" <=> Violated(input.env) = {}
    /\ output.result.raised # "" =>
         /\ output.result.raised = "ValueError"
         /\ { output.result.errors[k] : k \in 1..Len(output.result.errors) }
              = Violated(input.env)

\* ------------------------------------------------------------------ C30
\* C30: round trip of the .env store: for any content, key and value, after
\* update_env_value(key, value) a fresh load_env_config reads value under
\* key, the in-memory config holds value under key, and every other key
\* reads as it did before
C30_EnvRoundTrip ==
  output.fn = "update_env_value" =>
    LET before == LoadEnvConfig(input.file)
        fresh == LoadEnvConfig(output.result.file)
        key == input.key
    IN  /\ key \in DOMAIN fresh /\ fresh[key] = input.value
        /\ key \in DOMAIN output.result.config
        /\ output.result.config[key] = input.value
        /\ \A k \in (DOMAIN before \cup DOMAIN fresh) \ {key} :
             /\ k \in DOMAIN before /\ k \in DOMAIN fresh
             /\ fresh[k] = before[k]

====
